---- MODULE Spec2Model ----
(***************************************************************************)
(* Model of the log analysis engine of app.py: class LogAnalyzer           *)
(* (__init__, analyze_line, analyze_file), and of the handler upload_file. *)
(*                                                                         *)
(* A line of text is a sequence of tokens.  A token is an address, a       *)
(* whitespace character, one of the keywords the regular expressions of    *)
(* analyze_line look for, or any other word.  The regular expressions are  *)
(* modelled by what they accept on such a sequence.                        *)
(*                                                                         *)
(* Python lists are objects: the model keeps them in a heap and the        *)
(* analyzer (and the dict analyze_file returns) hold references to them.   *)
(***************************************************************************)
EXTENDS Integers, Sequences, FiniteSets, TLC

VARIABLES
    pc,            \* per instance: "new" (not constructed), "idle", "loop" (inside analyze_file),
                   \* "raised" (analyze_file left by an exception)
    stats,         \* per instance: self.stats
    ip_frequency,  \* per instance: self.ip_frequency, a function whose domain is the dict's key set
    attacks,       \* per instance: self.attacks, category -> reference of a list in the heap
    heap,          \* the list objects: reference -> sequence of events
    line_number,   \* per instance: local line_number of analyze_file
    line,          \* per instance: local line of analyze_file (the line last handed to analyze_line)
    file,          \* per instance: the unread part of the iterable given to analyze_file, as runs
    report,        \* per instance: the dicts analyze_file has returned so far, oldest first
    used,          \* per instance: how many single lines and bursts the input has produced
    given,         \* per instance: the input handed over as a whole before the run, as runs
    request,       \* the last POST /upload: its file part, and what the environment did to it
    response,      \* the JSON body upload_file returned for it
    disk,          \* RESULTS_FOLDER: timestamp of the file name -> what the file holds
    clock,         \* datetime.now() in seconds
    served,        \* the number of requests upload_file has answered
    triggered,     \* per instance: the addresses marked as having triggered DDoS, as the
                   \* specification keeps them beside the analyzer
    spec_ddos      \* per instance: the DDoS list the rule of the specification builds

\* the state of the web handler
web == <<request, response, disk, clock, served>>

\* the latch of the specification, run beside the analyzer
design == <<triggered, spec_ddos>>

vars == <<pc, stats, ip_frequency, attacks, heap, line_number, line, file, report, used, given,
          request, response, disk, clock, served, triggered, spec_ddos>>

(***************************************************************************)
(* Bounds of the model.                                                    *)
(***************************************************************************)
MaxSingles == 2     \* individually chosen lines per instance
MaxBursts == 2      \* runs of DDOS_THRESHOLD equal lines per instance
MaxCalls == 2       \* analyze_file calls per instance
MaxSameSingles == 1 \* single lines of the input given to two analyzers in turn
MaxSameBursts == 1  \* bursts of the input given to two analyzers in turn
MaxConcSingles == 1 \* single lines of the input of each of two interleaved analyzers
MaxTermSingles == 1 \* single lines of the input of the one analyze_file call that must return
MaxUploads == 2     \* requests to /upload

(***************************************************************************)
(* Program constants.                                                      *)
(***************************************************************************)
DDOS_THRESHOLD == 100

Instances == {1, 2}
None == "None"
Addresses == {"10.0.0.5", "203.0.113.9"}
Categories == {"sql_injection", "xss", "ddos", "brute_force"}

(***************************************************************************)
(* Lines.                                                                  *)
(***************************************************************************)
LinePlain == <<"GET", " ", "/index.html", "\n">>
LineAddrA == <<"10.0.0.5", " ", "GET", "\n">>
LineTwoAddr == <<"GET", " ", "203.0.113.9", " ", "10.0.0.5", "\n">>
LineSqlComment == <<"admin' OR 1=1", " ", "--", " ">>
LineXss == <<" ", "GET", " ", "<script>", "alert(", " ", "from", " ", "10.0.0.5", "\n">>
LineBfXss == <<"failed login", " ", "javascript:", "\n">>
LineBf == <<"203.0.113.9", " ", "Invalid Password", "<0xff>", "\n">>
LineSqlXss == <<"SELECT", " ", "x", " ", "from", " ", "t", " ", "onerror=", "\n">>
LineSqlBf == <<"\t", "10.0.0.5", " ", "drop", " ", "table", " ", "authentication failure">>
LineAll == <<"203.0.113.9", " ", "union", " ", "select", " ", "onload=", " ", "failed login", "\n">>

Lines ==
    {LinePlain, LineAddrA, LineTwoAddr, LineSqlComment, LineXss, LineBfXss,
     LineBf, LineSqlXss, LineSqlBf, LineAll}
BurstLines == {LineAddrA, LineTwoAddr}

(***************************************************************************)
(* The regular expressions of analyze_line.                                *)
(***************************************************************************)
\* (?i): the patterns are matched without regard to case
Lower(t) ==
    CASE t = "SELECT" -> "select"
      [] t = "Invalid Password" -> "invalid password"
      [] t = "TXT" -> "txt"
      [] OTHER -> t

\* \s
IsSpace(t) == t \in {" ", "\t", "\n"}

\* \b(?:\d{1,3}\.){3}\d{1,3}\b
IsAddress(t) == t \in Addresses

\* re.search(...) for the address: the leftmost match, None without one
RECURSIVE SearchIpFrom(_, _)
SearchIpFrom(l, k) ==
    IF k > Len(l) THEN None
    ELSE IF IsAddress(l[k]) THEN l[k]
    ELSE SearchIpFrom(l, k + 1)

SearchIpLast(l) ==
    IF \E k \in DOMAIN l : IsAddress(l[k])
    THEN l[CHOOSE k \in DOMAIN l : IsAddress(l[k]) /\ \A m \in DOMAIN l : IsAddress(l[m]) => m <= k]
    ELSE None

\* a search that gives a placeholder for a line without address
SearchIpUnknown(l) == IF SearchIpFrom(l, 1) = None THEN "unknown" ELSE SearchIpFrom(l, 1)

SearchIp(l) == SearchIpFrom(l, 1)

\* first\s+second
SpacedPair(l, first, second) ==
    \E i, j \in DOMAIN l :
        /\ i + 1 < j
        /\ Lower(l[i]) = first
        /\ Lower(l[j]) = second
        /\ \A k \in (i + 1)..(j - 1) : IsSpace(l[k])

\* (?i)(union\s+select|select.*from|drop\s+table|--\s*$)
SqlMatch(l) ==
    \/ SpacedPair(l, "union", "select")
    \/ \E i, j \in DOMAIN l :
        /\ i < j
        /\ Lower(l[i]) = "select"
        /\ Lower(l[j]) = "from"
        /\ \A k \in (i + 1)..(j - 1) : l[k] # "\n"
    \/ SpacedPair(l, "drop", "table")
    \/ \E i \in DOMAIN l :
        /\ l[i] = "--"
        /\ \A k \in (i + 1)..Len(l) : IsSpace(l[k])

\* (?i)(<script>|alert\(|onload=|onerror=|javascript:)
XssPatterns == {"<script>", "alert(", "onload=", "onerror=", "javascript:"}

XssMatchElif(l) == ~SqlMatch(l) /\ \E i \in DOMAIN l : Lower(l[i]) \in XssPatterns

XssMatch(l) == \E i \in DOMAIN l : Lower(l[i]) \in XssPatterns

\* (?i)(failed login|authentication failure|invalid password)
BruteForceMatch(l) ==
    \E i \in DOMAIN l :
        Lower(l[i]) \in {"failed login", "authentication failure", "invalid password"}

\* bytes.decode('utf-8', errors='ignore'): the bytes that are no UTF-8 are dropped
IsUndecodable(t) == t = "<0xff>"

Decode(l) == SelectSeq(l, LAMBDA t : ~IsUndecodable(t))

\* str.strip(): the line without its leading and trailing whitespace
RECURSIVE LStrip(_)
LStrip(l) == IF l # <<>> /\ IsSpace(Head(l)) THEN LStrip(Tail(l)) ELSE l

RECURSIVE RStrip(_)
RStrip(l) ==
    IF l # <<>> /\ IsSpace(l[Len(l)]) THEN RStrip(SubSeq(l, 1, Len(l) - 1)) ELSE l

\* str.rstrip() in its place
StripRight(l) == RStrip(l)

Strip(l) == RStrip(LStrip(l))

(***************************************************************************)
(* The state of an analyzer.                                               *)
(***************************************************************************)
\* self.stats as __init__ sets it
InitStats ==
    [total_attacks |-> 0, sql_injection_count |-> 0, xss_count |-> 0,
     ddos_count |-> 0, brute_force_count |-> 0, unique_ips |-> {}]

\* defaultdict(int) without keys
EmptyDict == [a \in {} |-> 0]

\* self.ip_frequency[ip] of a defaultdict(int), read without inserting
Freq(d, ip) == IF ip \in DOMAIN d THEN d[ip] ELSE 0

\* the increment made twice for a line
FreqIncrTwice(d, ip) == IF ip \in DOMAIN d THEN [d EXCEPT ![ip] = @ + 2] ELSE (ip :> 2) @@ d

\* self.ip_frequency[ip] += 1
FreqIncr(d, ip) == IF ip \in DOMAIN d THEN [d EXCEPT ![ip] = @ + 1] ELSE (ip :> 1) @@ d

\* self.stats['unique_ips'].add(ip)
UniqueAddFirstOnly(s, ip) == IF s = {} THEN {ip} ELSE s

UniqueAdd(s, ip) == s \cup {ip}

\* the four [] of __init__: fresh list objects, allocated at the end of the heap
SharedLists(h) ==
    [sql_injection |-> 1, xss |-> 2, ddos |-> 3, brute_force |-> 4]

SharedDdosList(h) ==
    [sql_injection |-> Len(h) + 1, xss |-> Len(h) + 2, ddos |-> 3,
     brute_force |-> Len(h) + 4]

NewLists(h) ==
    [sql_injection |-> Len(h) + 1, xss |-> Len(h) + 2, ddos |-> Len(h) + 3,
     brute_force |-> Len(h) + 4]

\* self.ip_frequency[ip] > 100
ExceedsAtThreshold(count) == count >= DDOS_THRESHOLD

Exceeds(count) == count > DDOS_THRESHOLD

\* any(attack['ip'] == ip for attack in self.attacks['ddos'])
AnyDdosNever(ddos, ip) == FALSE

AnyDdos(ddos, ip) == \E k \in DOMAIN ddos : ddos[k].ip = ip

\* the event of a loop that numbers its lines from 0
ContentEventZeroBased(n, ip, l) == [line |-> n - 1, ip |-> ip, content |-> Strip(l)]

\* the dict appended for a SQL injection, XSS or brute force match
ContentEvent(n, ip, l) == [line |-> n, ip |-> ip, content |-> Strip(l)]

\* the DDoS event with the line number in the place of the count
DdosEventLineAsCount(n, ip, count) == [line |-> n, ip |-> ip, count |-> n]

\* the dict appended for a DDoS detection
DdosEvent(n, ip, count) == [line |-> n, ip |-> ip, count |-> count]

\* stats[...] += 1 under its if
BumpAlways(c, hit) == c + 1

Bump(c, hit) == IF hit THEN c + 1 ELSE c

\* list.insert(0, ...) under its if
AppendIfFront(list, hit, ev) == IF hit THEN <<ev>> \o list ELSE list

\* list.append(...) under its if
AppendIf(list, hit, ev) == IF hit THEN Append(list, ev) ELSE list

\* the sum analyze_file stores in stats['total_attacks']
TotalWithoutDdos(s) == s.sql_injection_count + s.xss_count + s.brute_force_count

Total(s) ==
    s.sql_injection_count + s.xss_count + s.ddos_count + s.brute_force_count

\* the dict analyze_file returns: stats and ip_frequency are copies, the four
\* lists are the analyzer's own list objects
MakeReport(s, d, a) ==
    [stats |-> [total_attacks |-> s.total_attacks,
                sql_injection_count |-> s.sql_injection_count,
                xss_count |-> s.xss_count,
                ddos_count |-> s.ddos_count,
                brute_force_count |-> s.brute_force_count,
                unique_ips |-> Cardinality(s.unique_ips)],
     ip_frequency |-> d,
     sql_injection |-> a.sql_injection,
     xss |-> a.xss,
     ddos |-> a.ddos,
     brute_force |-> a.brute_force]

\* what a returned dict shows to its holder: the lists read through their references
ReportValue(r) ==
    [stats |-> r.stats,
     ip_frequency |-> r.ip_frequency,
     sql_injection |-> heap[r.sql_injection],
     xss |-> heap[r.xss],
     ddos |-> heap[r.ddos],
     brute_force |-> heap[r.brute_force]]

(***************************************************************************)
(* The operations.                                                         *)
(***************************************************************************)
InitWith(f1, f2) ==
    /\ pc = [i \in Instances |-> "new"]
    /\ stats = [i \in Instances |-> InitStats]
    /\ ip_frequency = [i \in Instances |-> EmptyDict]
    /\ attacks = [i \in Instances |-> NewLists(<<>>)]
    /\ heap = <<>>
    /\ line_number = [i \in Instances |-> 0]
    /\ line = [i \in Instances |-> <<>>]
    /\ file = [i \in Instances |-> IF i = 1 THEN f1 ELSE f2]
    /\ report = [i \in Instances |-> <<>>]
    /\ used = [i \in Instances |-> [singles |-> 0, bursts |-> 0]]
    /\ given = [i \in Instances |-> IF i = 1 THEN f1 ELSE f2]
    /\ request = None
    /\ response = None
    /\ disk = <<>>
    /\ clock = 0
    /\ served = 0
    /\ triggered = [i \in Instances |-> {}]
    /\ spec_ddos = [i \in Instances |-> <<>>]

Init == InitWith(<<>>, <<>>)

\* LogAnalyzer()
Construct(i) ==
    /\ pc[i] = "new"
    /\ pc' = [pc EXCEPT ![i] = "idle"]
    /\ stats' = [stats EXCEPT ![i] = InitStats]
    /\ ip_frequency' = [ip_frequency EXCEPT ![i] = EmptyDict]
    /\ attacks' = [attacks EXCEPT ![i] = NewLists(heap)]
    /\ heap' = heap \o <<<<>>, <<>>, <<>>, <<>>>>
    /\ triggered' = [triggered EXCEPT ![i] = {}]
    /\ spec_ddos' = [spec_ddos EXCEPT ![i] = <<>>]
    /\ UNCHANGED <<line_number, line, file, report, used, given, web>>

\* analyze_line(line, line_number) on the analyzer state st, a record of
\* self.stats, self.ip_frequency and the contents of the four lists of
\* self.attacks: the state it leaves
AnalyzeLineOn(st, l, n) ==
    LET ip == SearchIp(l)
        s0 == st.stats
        uniq == IF ip # None THEN UniqueAdd(s0.unique_ips, ip) ELSE s0.unique_ips
        freq == IF ip # None THEN FreqIncr(st.ip_frequency, ip) ELSE st.ip_frequency
        sql == SqlMatch(l)
        xss == XssMatch(l)
        ddos == IF ip # None
                THEN Exceeds(Freq(freq, ip)) /\ ~AnyDdos(st.attacks.ddos, ip)
                ELSE FALSE
        bf == BruteForceMatch(l)
    IN  [stats |->
            [total_attacks |-> s0.total_attacks,
             sql_injection_count |-> Bump(s0.sql_injection_count, sql),
             xss_count |-> Bump(s0.xss_count, xss),
             ddos_count |-> Bump(s0.ddos_count, ddos),
             brute_force_count |-> Bump(s0.brute_force_count, bf),
             unique_ips |-> uniq],
         ip_frequency |-> freq,
         attacks |->
            [sql_injection |-> AppendIf(st.attacks.sql_injection, sql, ContentEvent(n, ip, l)),
             xss |-> AppendIf(st.attacks.xss, xss, ContentEvent(n, ip, l)),
             ddos |-> AppendIf(st.attacks.ddos, ddos, DdosEvent(n, ip, Freq(freq, ip))),
             brute_force |-> AppendIf(st.attacks.brute_force, bf, ContentEvent(n, ip, l))]]

\* the state of instance i, its lists read through their references
Self(i) ==
    [stats |-> stats[i],
     ip_frequency |-> ip_frequency[i],
     attacks |-> [sql_injection |-> heap[attacks[i].sql_injection],
                 xss |-> heap[attacks[i].xss],
                 ddos |-> heap[attacks[i].ddos],
                 brute_force |-> heap[attacks[i].brute_force]]]

\* the DDoS check of the specification (section 4.1, step 4) on its own
\* state: the set T of addresses marked and the DDoS list D, for a line
\* numbered n with address ip (None without one) and the frequency table
\* freq after the increment of step 1
SpecDdosStep(T, D, ip, freq, n) ==
    IF ip # None /\ Freq(freq, ip) > DDOS_THRESHOLD /\ ip \notin T
    THEN [triggered |-> T \cup {ip},
          ddos |-> Append(D, [line |-> n, ip |-> ip, count |-> Freq(freq, ip)])]
    ELSE [triggered |-> T, ddos |-> D]

\* analyze_line(line, line_number) of instance i
AnalyzeLine(i, l, n) ==
    \E st \in {AnalyzeLineOn(Self(i), l, n)} :
        /\ stats' = [stats EXCEPT ![i] = st.stats]
        /\ ip_frequency' = [ip_frequency EXCEPT ![i] = st.ip_frequency]
        /\ heap' = [heap EXCEPT ![attacks[i].sql_injection] = st.attacks.sql_injection,
                                ![attacks[i].xss] = st.attacks.xss,
                                ![attacks[i].ddos] = st.attacks.ddos,
                                ![attacks[i].brute_force] = st.attacks.brute_force]
        /\ \E d \in {SpecDdosStep(triggered[i], spec_ddos[i], SearchIp(l), st.ip_frequency, n)} :
              /\ triggered' = [triggered EXCEPT ![i] = d.triggered]
              /\ spec_ddos' = [spec_ddos EXCEPT ![i] = d.ddos]

\* analyze_file that starts from a cleared analyzer
AnalyzeFileBeginReset(i) ==
    /\ pc[i] = "idle"
    /\ Len(report[i]) < MaxCalls
    /\ pc' = [pc EXCEPT ![i] = "loop"]
    /\ line_number' = [line_number EXCEPT ![i] = 0]
    /\ stats' = [stats EXCEPT ![i] = InitStats]
    /\ ip_frequency' = [ip_frequency EXCEPT ![i] = EmptyDict]
    /\ heap' = [heap EXCEPT ![attacks[i].sql_injection] = <<>>,
                            ![attacks[i].xss] = <<>>,
                            ![attacks[i].ddos] = <<>>,
                            ![attacks[i].brute_force] = <<>>]
    /\ UNCHANGED <<attacks, line, file, report, used, given, web, design>>

\* analyze_file(file) is called: line_number = 0
AnalyzeFileBegin(i) ==
    /\ pc[i] = "idle"
    /\ Len(report[i]) < MaxCalls
    /\ pc' = [pc EXCEPT ![i] = "loop"]
    /\ line_number' = [line_number EXCEPT ![i] = 0]
    /\ UNCHANGED <<stats, ip_frequency, attacks, heap, line, file, report, used, given, web, design>>

\* the rest of the unread input after its first line
Rest(f) ==
    IF Head(f).n > 1 THEN <<[Head(f) EXCEPT !.n = @ - 1]>> \o Tail(f) ELSE Tail(f)

\* group(0) taken of re.search's result without the test for a match
GroupOfNoMatch(l) == SearchIpFrom(l, 1) = None

\* analyze_line raises on the line l: re.search gives a match or None, group(0)
\* is taken only of a match, and no other statement fails on a str
AnalyzeLineRaises(l) == FALSE

\* the body of the for loop of analyze_file on the raw line l; an exception of
\* analyze_line leaves analyze_file
LoopBody(i, raw) ==
    LET l == Decode(raw)
        n == line_number[i] + 1
    IN  /\ line_number' = [line_number EXCEPT ![i] = n]
        /\ line' = [line EXCEPT ![i] = l]
        /\ IF AnalyzeLineRaises(l)
           THEN /\ pc' = [pc EXCEPT ![i] = "raised"]
                /\ UNCHANGED <<stats, ip_frequency, heap, design>>
           ELSE /\ pc' = pc
                /\ AnalyzeLine(i, l, n)

\* one iteration of the for loop of analyze_file on the next line of the
\* unread input
AnalyzeFileLoop(i) ==
    /\ pc[i] = "loop"
    /\ file[i] # <<>>
    /\ LoopBody(i, Head(file[i]).line)
    /\ file' = [file EXCEPT ![i] = Rest(@)]
    /\ UNCHANGED <<attacks, report, used, given, web>>

\* the iterable given to analyze_file yields a line chosen now, and the loop
\* iterates on it
AnalyzeFileLoopSingle(i) ==
    /\ pc[i] = "loop"
    /\ file[i] = <<>>
    /\ used[i].singles < MaxSingles
    /\ \E l \in Lines : LoopBody(i, l)
    /\ used' = [used EXCEPT ![i].singles = @ + 1]
    /\ UNCHANGED <<attacks, report, file, given, web>>

\* the iterable yields a burst of DDOS_THRESHOLD equal lines chosen now, and
\* the loop iterates on the first of them; the bursts of an instance come
\* before its single lines
AnalyzeFileLoopBurst(i) ==
    /\ pc[i] = "loop"
    /\ file[i] = <<>>
    /\ used[i].bursts < MaxBursts
    /\ used[i].singles = 0
    /\ \E l \in BurstLines :
        /\ LoopBody(i, l)
        /\ file' = [file EXCEPT ![i] = Rest(<<[line |-> l, n |-> DDOS_THRESHOLD]>>)]
    /\ used' = [used EXCEPT ![i].bursts = @ + 1]
    /\ UNCHANGED <<attacks, report, given, web>>

\* the input is exhausted: analyze_file stores the total and returns the dict
AnalyzeFileReturn(i) ==
    /\ pc[i] = "loop"
    /\ file[i] = <<>>
    /\ LET s == [stats[i] EXCEPT !.total_attacks = Total(stats[i])]
       IN  /\ stats' = [stats EXCEPT ![i] = s]
           /\ report' = [report EXCEPT ![i] = Append(@, MakeReport(s, ip_frequency[i], attacks[i]))]
    /\ pc' = [pc EXCEPT ![i] = "idle"]
    /\ UNCHANGED <<ip_frequency, attacks, heap, line_number, line, file, used, given, web, design>>

(***************************************************************************)
(* One analyzer, fed any input within the bounds, analyze_file called up   *)
(* to MaxCalls times.                                                      *)
(***************************************************************************)
Next ==
    \/ Construct(1)
    \/ AnalyzeFileBegin(1)
    \/ AnalyzeFileLoop(1)
    \/ AnalyzeFileLoopSingle(1)
    \/ AnalyzeFileLoopBurst(1)
    \/ AnalyzeFileReturn(1)

Spec == Init /\ [][Next]_vars

(***************************************************************************)
(* Whole inputs: bursts first, then single lines.                          *)
(***************************************************************************)
SeqsUpTo(S, n) == UNION {[1..k -> S] : k \in 0..n}

RunsOf(ls, n) == {[line |-> l, n |-> n] : l \in ls}

Streams(bursts, nb, singles, ns) ==
    {b \o t : b \in SeqsUpTo(RunsOf(bursts, DDOS_THRESHOLD), nb),
              t \in SeqsUpTo(RunsOf(singles, 1), ns)}

\* the for loop of analyze_file over k equal lines l on the analyzer state
\* st, line_number being n: the state after them (the first half of the lines,
\* then the second half from the state the first half leaves)
RECURSIVE AnalyzeRun(_, _, _, _)
AnalyzeRun(st, l, n, k) ==
    IF k = 0 THEN st
    ELSE IF k = 1 THEN AnalyzeLineOn(st, Decode(l), n + 1)
    ELSE LET h == k \div 2
         IN  CHOOSE r \in {AnalyzeRun(mid, l, n + h, k - h) :
                               mid \in {AnalyzeRun(st, l, n, h)}} : TRUE

\* the for loop of analyze_file over the input f on the analyzer state st,
\* line_number being n: the state after the loop
RECURSIVE AnalyzeAll(_, _, _)
AnalyzeAll(st, f, n) ==
    IF f = <<>> THEN st
    ELSE AnalyzeAll(AnalyzeRun(st, Head(f).line, n, Head(f).n), Tail(f), n + Head(f).n)

\* a LogAnalyzer as __init__ leaves it
Fresh ==
    [stats |-> InitStats, ip_frequency |-> EmptyDict,
     attacks |-> [sql_injection |-> <<>>, xss |-> <<>>, ddos |-> <<>>, brute_force |-> <<>>]]

\* LogAnalyzer().analyze_file(f): what the returned dict shows
AnalyzeFileAlone(f) ==
    LET st == AnalyzeAll(Fresh, f, 0)
        s == [st.stats EXCEPT !.total_attacks = Total(st.stats)]
    IN  MakeReport(s, st.ip_frequency, st.attacks)

(***************************************************************************)
(* Two fresh analyzers are given the same input, one after the other, and  *)
(* analyze_file is called once on each.                                    *)
(***************************************************************************)
StreamsSame == Streams(BurstLines, MaxSameBursts, Lines, MaxSameSingles)

InitSame == \E f \in StreamsSame : InitWith(f, f)

SameTurn(i) == report[i] = <<>> /\ (i = 2 => report[1] # <<>>)

NextSame ==
    \E i \in Instances :
        \/ SameTurn(i) /\ Construct(i)
        \/ SameTurn(i) /\ AnalyzeFileBegin(i)
        \/ SameTurn(i) /\ AnalyzeFileLoop(i)
        \/ SameTurn(i) /\ AnalyzeFileReturn(i)

SpecSame == InitSame /\ [][NextSame]_vars

(***************************************************************************)
(* One fresh analyzer is given a whole input and analyze_file is called    *)
(* once; the for loop, once entered, runs on until it returns or raises.   *)
(***************************************************************************)
TermLines == {LinePlain, LineSqlComment, LineBf}

StreamsTerm == Streams(BurstLines, MaxSameBursts, TermLines, MaxTermSingles)

InitTerm == \E f \in StreamsTerm : InitWith(f, <<>>)

NextTerm ==
    \/ Construct(1)
    \/ report[1] = <<>> /\ AnalyzeFileBegin(1)
    \/ AnalyzeFileLoop(1)
    \/ AnalyzeFileReturn(1)

SpecTerm ==
    /\ InitTerm
    /\ [][NextTerm]_vars
    /\ WF_vars(AnalyzeFileLoop(1))
    /\ WF_vars(AnalyzeFileReturn(1))

(***************************************************************************)
(* Two analyzers, each with its own input, analyze_file called once on     *)
(* each, their steps interleaved in any order.                             *)
(***************************************************************************)
ConcLines == {LineXss}

StreamsConc == Streams({LineAddrA}, 1, ConcLines, MaxConcSingles)

InitConc == \E f1, f2 \in StreamsConc : InitWith(f1, f2)

NextConc ==
    \E i \in Instances :
        \/ report[i] = <<>> /\ Construct(i)
        \/ report[i] = <<>> /\ AnalyzeFileBegin(i)
        \/ report[i] = <<>> /\ AnalyzeFileLoop(i)
        \/ report[i] = <<>> /\ AnalyzeFileReturn(i)

SpecConc == InitConc /\ [][NextConc]_vars

(***************************************************************************)
(* The web handler upload_file: each request is answered by one call, with *)
(* an analyzer of its own.                                                 *)
(***************************************************************************)
ALLOWED_EXTENSIONS == {"log", "txt"}

\* file names, as their parts between and including the dots
NameLog == <<"access", ".", "log">>
NameTxt == <<"audit", ".", "v2", ".", "TXT">>
NamePdf == <<"notes", ".", "pdf">>
NameNoDot == <<"log">>
NameEmpty == <<>>

Names == {NameLog, NameTxt, NamePdf, NameNoDot, NameEmpty}

\* the uploaded streams
Contents ==
    {<<>>, <<[line |-> LinePlain, n |-> 1]>>, <<[line |-> LineSqlComment, n |-> 1]>>}

\* what the environment makes fail while the request is served: nothing, the
\* reading of the uploaded stream, os.makedirs, open, or json.dump
Faults == {"none", "read", "makedirs", "open", "dump"}

Requests ==
    [has_file : BOOLEAN, filename : Names, content : Contents, fault : Faults]

\* str(e) of the exception the fault raises
Message(fault) ==
    CASE fault = "read" -> "OSError: read"
      [] fault = "makedirs" -> "PermissionError: results"
      [] fault = "open" -> "PermissionError: analysis.json"
      [] fault = "dump" -> "OSError: No space left on device"

\* a file that open(..., 'w') created and json.dump did not finish
Truncated == "truncated"

\* filename.rsplit('.', 1)[1]
Extension(filename) ==
    IF filename[Len(filename)] = "." THEN "" ELSE filename[Len(filename)]

\* allowed_file(filename)
allowed_file(filename) ==
    /\ \E k \in DOMAIN filename : filename[k] = "."
    /\ Lower(Extension(filename)) \in ALLOWED_EXTENSIONS

\* the body of the try raises
AnalysisRaises(fault) == fault = "read"

\* a save whose errors are dropped
PersistIgnored(fault) == FALSE

\* lines 144-150 raise into the except clause
PersistRaises(fault) == fault \in {"makedirs", "open", "dump"}

Failure(message) == [success |-> FALSE, error |-> message]

Success(results) == [success |-> TRUE, results |-> results]

\* the JSON body upload_file returns for the request
Respond(req) ==
    IF ~req.has_file THEN Failure("No file part")
    ELSE IF req.filename = <<>> THEN Failure("No selected file")
    ELSE IF ~allowed_file(req.filename)
    THEN Failure("Invalid file type")
    ELSE IF AnalysisRaises(req.fault) \/ PersistRaises(req.fault)
    THEN Failure(Message(req.fault))
    ELSE Success(AnalyzeFileAlone(req.content))

\* RESULTS_FOLDER after the request, its file named by the timestamp ts
Saved(req, ts) ==
    IF ~req.has_file \/ req.filename = <<>> \/ ~allowed_file(req.filename)
       \/ req.fault \in {"read", "makedirs", "open"}
    THEN disk
    ELSE (ts :> (IF req.fault = "dump" THEN Truncated ELSE AnalyzeFileAlone(req.content)))
         @@ disk

\* POST /upload
UploadFile ==
    /\ served < MaxUploads
    /\ \E req \in Requests : \E ts \in {clock, clock + 1} :
        /\ request' = req
        /\ response' = Respond(req)
        /\ disk' = Saved(req, ts)
        /\ clock' = ts
    /\ served' = served + 1
    /\ UNCHANGED <<pc, stats, ip_frequency, attacks, heap, line_number, line, file, report,
                   used, given, design>>

NextUpload == UploadFile

SpecUpload == Init /\ [][NextUpload]_vars

(***************************************************************************)
(* Properties.                                                             *)
(***************************************************************************)
Constructed == {i \in Instances : pc[i] # "new"}

\* self.attacks[c] of instance i, read through its reference
List(i, c) == IF pc[i] = "new" THEN <<>> ELSE heap[attacks[i][c]]

\* instance i has just returned from analyze_file
JustReturned(i) == pc[i] = "idle" /\ report[i] # <<>>

\* the dict the last analyze_file call of instance i returned
LastReport(i) == ReportValue(report[i][Len(report[i])])

\* the step is one analyze_line call of instance i
Analyzed(i) == line_number'[i] = line_number[i] + 1

\* C1: when analyze_file returns, stats.total_attacks of the returned Report
\* is the sum of its four category counts, and that sum is the sum of the
\* lengths of the four event lists of the same Report.
C1_TotalIsSum ==
    \A i \in Instances :
        JustReturned(i) =>
            LET r == LastReport(i)
            IN  /\ r.stats.total_attacks =
                      r.stats.sql_injection_count + r.stats.xss_count
                      + r.stats.ddos_count + r.stats.brute_force_count
                /\ r.stats.total_attacks =
                      Len(r.sql_injection) + Len(r.xss) + Len(r.ddos) + Len(r.brute_force)

C1_Witness ==
    \E i \in Instances :
        /\ JustReturned(i)
        /\ LastReport(i).stats.ddos_count >= 1
        /\ LastReport(i).stats.sql_injection_count >= 1
        /\ LastReport(i).stats.total_attacks >= 4

\* C2: in every state the DDoS list of an analyzer holds at most one event
\* per address, however many lines of that address follow the detection.
C2_OneDdosPerAddress ==
    \A i \in Instances :
        \A j, k \in DOMAIN List(i, "ddos") :
            List(i, "ddos")[j].ip = List(i, "ddos")[k].ip => j = k

C2_Witness ==
    \E i \in Constructed :
        \E k \in DOMAIN List(i, "ddos") :
            Freq(ip_frequency[i], List(i, "ddos")[k].ip) >= DDOS_THRESHOLD + 3

\* the DDoS list of instance i has an event for address a
HasDdos(i, a) == \E k \in DOMAIN List(i, "ddos") : List(i, "ddos")[k].ip = a

C3_NoneUpToThreshold ==
    \A i \in Instances : \A a \in Addresses :
        Freq(ip_frequency[i], a) <= 100 => ~HasDdos(i, a)

C3_AppendedOnCrossing ==
    \A i \in Instances : \A a \in Addresses :
        /\ (~HasDdos(i, a) /\ HasDdos(i, a)') <=>
              (Freq(ip_frequency[i], a) = 100 /\ Freq(ip_frequency'[i], a) = 101)
        /\ (~HasDdos(i, a) /\ HasDdos(i, a)') =>
              /\ Analyzed(i)
              /\ List(i, "ddos")' =
                    Append(List(i, "ddos"), [line |-> line_number'[i], ip |-> a, count |-> 101])

\* C3: the DDoS event of an address is appended by exactly the analyze_line
\* call that raises its frequency from 100 to 101, with that call's line
\* number and the count 101; no DDoS event of an address exists while its
\* frequency is at most 100.
C3_DdosAt101 == [](C3_NoneUpToThreshold) /\ [][C3_AppendedOnCrossing]_vars

C3_Witness ==
    \E i \in Constructed :
        \E k \in DOMAIN List(i, "ddos") :
            /\ List(i, "ddos")[k].count = 101
            /\ List(i, "ddos")[k].line # 101
            /\ Freq(ip_frequency[i], List(i, "ddos")[k].ip) = 101

\* stats[...] of the category c
Counter(i, c) ==
    CASE c = "sql_injection" -> stats[i].sql_injection_count
      [] c = "xss" -> stats[i].xss_count
      [] c = "ddos" -> stats[i].ddos_count
      [] c = "brute_force" -> stats[i].brute_force_count

C4_CountsAreLengths ==
    \A i \in Instances : \A c \in Categories : Counter(i, c) = Len(List(i, c))

C4_OneEventPerIncrement ==
    \A i \in Instances : \A c \in Categories :
        \/ Counter(i, c)' = Counter(i, c) /\ List(i, c)' = List(i, c)
        \/ /\ Counter(i, c)' = Counter(i, c) + 1
           /\ Len(List(i, c)') = Len(List(i, c)) + 1
           /\ SubSeq(List(i, c)', 1, Len(List(i, c))) = List(i, c)

\* C4: in every state each category counter equals the length of its event
\* list, and a step either leaves a counter and its list alone or adds one to
\* the counter and appends one event to the list.
C4_CountersMatchLists == [](C4_CountsAreLengths) /\ [][C4_OneEventPerIncrement]_vars

C4_Witness ==
    \E i \in Constructed : \A c \in Categories : Counter(i, c) >= 1 /\ Len(List(i, c)) >= 1

\* C5: no step changes what a Report that analyze_file has returned shows:
\* its stats, its ip_frequency and its four event lists.
C5_ReportImmutable ==
    [][\A i \in Instances : \A k \in DOMAIN report[i] :
            ReportValue(report[i][k])' = ReportValue(report[i][k])]_vars

\* C6: in every state the set stats['unique_ips'] is the key set of
\* ip_frequency, and in every returned Report stats.unique_ips is the number
\* of keys of its ip_frequency.
C6_UniqueIpsAreKeys ==
    \A i \in Instances :
        /\ stats[i].unique_ips = DOMAIN ip_frequency[i]
        /\ \A k \in DOMAIN report[i] :
              report[i][k].stats.unique_ips = Cardinality(DOMAIN report[i][k].ip_frequency)

C6_Witness ==
    \E i \in Instances :
        /\ JustReturned(i)
        /\ LastReport(i).stats.unique_ips = 2
        /\ DOMAIN ip_frequency[i] = Addresses

\* a is the first address in the line l
IsFirstAddress(l, a) ==
    \E k \in DOMAIN l :
        /\ l[k] = a
        /\ IsAddress(l[k])
        /\ \A m \in 1..(k - 1) : ~IsAddress(l[m])

\* C7: an analyze_line call adds exactly 1 to ip_frequency of the first
\* address of its line and changes no other entry; a line without address
\* changes none; no other step changes ip_frequency.
C7_FirstAddressCounted ==
    [][\A i \in Instances :
          IF Analyzed(i)
          THEN /\ DOMAIN ip_frequency'[i] \subseteq Addresses
               /\ \A a \in Addresses :
                     Freq(ip_frequency'[i], a) =
                        Freq(ip_frequency[i], a)
                        + (IF IsFirstAddress(line'[i], a) THEN 1 ELSE 0)
          ELSE ip_frequency'[i] = ip_frequency[i]]_vars

C7_Witness ==
    \E i \in Constructed :
        /\ line[i] = LineTwoAddr
        /\ Freq(ip_frequency[i], "203.0.113.9") = 2
        /\ "10.0.0.5" \notin DOMAIN ip_frequency[i]

\* the lines of the catalogue that the SQL injection, the XSS and the brute
\* force patterns of section 4.1 of the specification match
ExpectedHits ==
    [sql_injection |-> {LineSqlComment, LineSqlXss, LineSqlBf, LineAll},
     xss |-> {LineXss, LineBfXss, LineSqlXss, LineAll},
     brute_force |-> {LineBfXss, LineBf, LineSqlBf, LineAll}]

Expected(c, l) == \E raw \in ExpectedHits[c] : l = Decode(raw)

\* C9: an analyze_line call adds 1 to the counter of each of the categories
\* SQL injection, XSS and brute force whose pattern its line matches and
\* appends one event with its line number to that list, and leaves the
\* counters and lists of the categories it does not match unchanged.
C9_IndependentChecks ==
    [][\A i \in Instances : \A c \in {"sql_injection", "xss", "brute_force"} :
          Analyzed(i) =>
              IF Expected(c, line'[i])
              THEN /\ Counter(i, c)' = Counter(i, c) + 1
                   /\ Len(List(i, c)') = Len(List(i, c)) + 1
                   /\ SubSeq(List(i, c)', 1, Len(List(i, c))) = List(i, c)
                   /\ List(i, c)'[Len(List(i, c)')].line = line_number'[i]
              ELSE /\ Counter(i, c)' = Counter(i, c)
                   /\ List(i, c)' = List(i, c)]_vars

C9_Witness ==
    \E i \in Constructed :
        /\ line[i] = LineAll
        /\ \A c \in {"sql_injection", "xss", "brute_force"} :
              /\ List(i, c) # <<>>
              /\ List(i, c)[Len(List(i, c))].line = line_number[i]
              /\ Counter(i, c) = 2

\* C8: two fresh analyzers that are given the same input return Reports that
\* show the same stats, the same ip_frequency and the same four event lists.
C8_SameInputSameReport ==
    (report[1] # <<>> /\ report[2] # <<>>) =>
        ReportValue(report[1][1]) = ReportValue(report[2][1])

C8_Witness ==
    /\ report[1] # <<>>
    /\ report[2] # <<>>
    /\ given[1] = given[2]
    /\ ReportValue(report[2][1]).ddos # <<>>
    /\ ReportValue(report[2][1]).xss # <<>>
    /\ ReportValue(report[1][1]).stats.total_attacks = 2

\* the inputs of StreamsConc, each with what analyze_file of a fresh analyzer
\* returns for it
AloneConc == {<<f, AnalyzeFileAlone(f)>> : f \in StreamsConc}

\* C10: whatever the interleaving of the steps of two analyzers, the Report
\* each of them has returned shows what analyze_file of a fresh analyzer
\* returns for its input when run alone.
C10_ReportAsAlone ==
    \A i \in Instances :
        report[i] # <<>> => <<given[i], ReportValue(report[i][1])>> \in AloneConc

C10_Witness ==
    /\ \A i \in Instances :
          /\ report[i] # <<>>
          /\ Len(ReportValue(report[i][1]).ddos) = 1
          /\ Len(ReportValue(report[i][1]).xss) = 1
          /\ ReportValue(report[i][1]).stats.total_attacks = 2

\* the number of lines of the input f
RECURSIVE LinesIn(_)
LinesIn(f) == IF f = <<>> THEN 0 ELSE Head(f).n + LinesIn(Tail(f))

C11_NoRaise == \A i \in Instances : pc[i] # "raised"

C11_EmptyInput ==
    \A i \in Instances :
        (report[i] # <<>> /\ given[i] = <<>>) =>
            ReportValue(report[i][1]) =
                [stats |-> [total_attacks |-> 0, sql_injection_count |-> 0, xss_count |-> 0,
                            ddos_count |-> 0, brute_force_count |-> 0, unique_ips |-> 0],
                 ip_frequency |-> <<>>,
                 sql_injection |-> <<>>, xss |-> <<>>, ddos |-> <<>>, brute_force |-> <<>>]

\* C11: for every input, analyze_file once called returns a Report, having
\* read every line, and no line makes it raise; for the empty input the
\* Report has all counts and unique_ips 0, the four lists and ip_frequency
\* empty.
C11_ReturnsReport ==
    /\ \A i \in Instances :
          (pc[i] = "loop") ~> (pc[i] = "idle" /\ report[i] # <<>> /\ file[i] = <<>>)
    /\ [](C11_NoRaise)
    /\ [](C11_EmptyInput)

C11_Witness ==
    /\ pc[1] = "idle"
    /\ report[1] # <<>>
    /\ LinesIn(given[1]) = DDOS_THRESHOLD + 1
    /\ line_number[1] = DDOS_THRESHOLD + 1
    /\ ReportValue(report[1][1]).stats.total_attacks >= 2

C11_WitnessEmpty ==
    /\ report[1] # <<>>
    /\ given[1] = <<>>

\* the analyzer state of instance i apart from stats.total_attacks
Accumulated(i) ==
    [counts |-> [c \in Categories |-> Counter(i, c)],
     unique_ips |-> stats[i].unique_ips,
     ip_frequency |-> ip_frequency[i],
     lists |-> [c \in Categories |-> List(i, c)]]

C12_ReturnKeepsState ==
    \A i \in Instances :
        Len(report'[i]) = Len(report[i]) + 1 => Accumulated(i)' = Accumulated(i)

C12_CallKeepsState ==
    \A i \in Instances :
        (pc[i] = "idle" /\ pc'[i] = "loop") =>
            /\ Accumulated(i)' = Accumulated(i)
            /\ stats'[i] = stats[i]

C12_SecondReportContinues ==
    \A i \in Instances :
        Len(report[i]) = 2 =>
            LET r1 == ReportValue(report[i][1])
                r2 == ReportValue(report[i][2])
            IN  /\ r2.stats.sql_injection_count >= r1.stats.sql_injection_count
                /\ r2.stats.xss_count >= r1.stats.xss_count
                /\ r2.stats.ddos_count >= r1.stats.ddos_count
                /\ r2.stats.brute_force_count >= r1.stats.brute_force_count
                /\ r2.stats.unique_ips >= r1.stats.unique_ips
                /\ \A a \in DOMAIN r1.ip_frequency :
                      a \in DOMAIN r2.ip_frequency /\ r2.ip_frequency[a] >= r1.ip_frequency[a]

\* C12: building the Report at the end of analyze_file changes none of the
\* four counters, the unique set, the frequency table and the four lists
\* (only stats.total_attacks is written), and a call of analyze_file on an
\* analyzer that has already returned starts from that state, so the second
\* Report continues the counts and frequencies of the first.
C12_NoReset ==
    /\ [][C12_ReturnKeepsState]_vars
    /\ [][C12_CallKeepsState]_vars
    /\ [](C12_SecondReportContinues)

\* the first line of a second call takes an address from 100 to 101
C12_Witness ==
    /\ Len(report[1]) = 2
    /\ ReportValue(report[1][1]).stats.ddos_count = 0
    /\ ReportValue(report[1][1]).stats.total_attacks = 0
    /\ ReportValue(report[1][2]).stats.ddos_count = 1
    /\ ReportValue(report[1][2]).ddos[1].line = 1
    /\ ReportValue(report[1][2]).ddos[1].count = DDOS_THRESHOLD + 1

\* the number of analyze_line calls instance i has made, from the lines its
\* inputs have yielded
Fed(i) == used[i].singles + DDOS_THRESHOLD * used[i].bursts - LinesIn(file[i])

\* instance i is in, or has just returned from, its first analyze_file call
FirstRun(i) ==
    \/ pc[i] = "loop" /\ report[i] = <<>>
    \/ pc[i] = "idle" /\ Len(report[i]) = 1

Increasing(list) ==
    \A k \in DOMAIN list : \A m \in DOMAIN list : k < m => list[k].line < list[m].line

C13_NumberedFromOne ==
    \A i \in Instances : FirstRun(i) => line_number[i] = Fed(i)

C13_Ordered ==
    \A i \in Instances : FirstRun(i) =>
        /\ \A c \in Categories :
              /\ Increasing(List(i, c))
              /\ \A k \in DOMAIN List(i, c) :
                    List(i, c)[k].line >= 1 /\ List(i, c)[k].line <= Fed(i)
        /\ pc[i] = "idle" =>
              \A c \in Categories : Increasing(ReportValue(report[i][1])[c])

C13_CarriesItsNumber ==
    \A i \in Instances : \A c \in Categories :
        (FirstRun(i) /\ Analyzed(i) /\ Len(List(i, c)') > Len(List(i, c))) =>
            List(i, c)'[Len(List(i, c)')].line = Fed(i)'

\* C13: in the first analyze_file call of a fresh analyzer the k-th line of
\* the input is analyzed with line number k, every event carries the number
\* of the line that produced it, and each of the four lists, also as the
\* Report returns it, is in strictly increasing line number.
C13_LineOrder ==
    /\ [](C13_NumberedFromOne)
    /\ [](C13_Ordered)
    /\ [][C13_CarriesItsNumber]_vars

C13_Witness ==
    /\ pc[1] = "idle"
    /\ Len(report[1]) = 1
    /\ Len(ReportValue(report[1][1]).ddos) = 2
    /\ ReportValue(report[1][1]).ddos[1].line = 2 * DDOS_THRESHOLD + 1
    /\ ReportValue(report[1][1]).ddos[2].line = 2 * DDOS_THRESHOLD + 2
    /\ Len(ReportValue(report[1][1]).sql_injection) = 2
    /\ ReportValue(report[1][1]).sql_injection[1].line = 2 * DDOS_THRESHOLD + 1

\* the request passes the three checks before the try
C14_Accepted ==
    /\ request.has_file
    /\ request.filename \in {NameLog, NameTxt}

C14_OneOutcome ==
    served > 0 =>
        /\ response.success \in BOOLEAN
        /\ response.success => DOMAIN response = {"success", "results"}
        /\ ~response.success => DOMAIN response = {"success", "error"} /\ response.error # ""

C14_FailureReported ==
    (served > 0 /\ request.fault # "none") => ~response.success

C14_ZeroMatchesSucceed ==
    (served > 0 /\ C14_Accepted /\ request.fault = "none"
       /\ request.content \in {<<>>, <<[line |-> LinePlain, n |-> 1]>>}) =>
        /\ response.success
        /\ response.results.stats.total_attacks = 0
        /\ response.results.stats.sql_injection_count = 0
        /\ response.results.stats.xss_count = 0
        /\ response.results.stats.ddos_count = 0
        /\ response.results.stats.brute_force_count = 0

\* C14: upload_file answers every request with exactly one of two bodies,
\* success with the Report or failure with an error message; a failure while
\* reading the stream or while saving the Report gives the failure body, and
\* an input without matches whose Report is saved gives the success body with
\* all counts 0.
C14_FailureIsNotZeroMatches ==
    /\ C14_OneOutcome
    /\ C14_FailureReported
    /\ C14_ZeroMatchesSucceed

\* json.dump fails on the Report of an input without matches
C14_Witness ==
    /\ served > 0
    /\ C14_Accepted
    /\ request.content = <<[line |-> LinePlain, n |-> 1]>>
    /\ request.fault = "dump"
    /\ ~response.success
    /\ response.error = "OSError: No space left on device"
    /\ \E ts \in DOMAIN disk : disk[ts] = Truncated

\* c is the line l without the whitespace at its two ends
Trimmed(l, c) ==
    \E a \in 1..(Len(l) + 1) : \E b \in 0..Len(l) :
        /\ c = SubSeq(l, a, b)
        /\ \A k \in 1..(a - 1) : IsSpace(l[k])
        /\ \A k \in (b + 1)..Len(l) : IsSpace(l[k])
        /\ c # <<>> => ~IsSpace(c[1]) /\ ~IsSpace(c[Len(c)])

HasAddress(l) == \E k \in DOMAIN l : IsAddress(l[k])

\* C15: every event an analyze_line call appends to the SQL injection, XSS
\* or brute force list carries the line number of the call, the first
\* address of the call's line, None exactly when the line has no address,
\* and as content the line without the whitespace at its two ends.
C15_EventFields ==
    [][\A i \in Instances : \A c \in {"sql_injection", "xss", "brute_force"} :
          (Analyzed(i) /\ Len(List(i, c)') > Len(List(i, c))) =>
              LET e == List(i, c)'[Len(List(i, c)')]
              IN  /\ DOMAIN e = {"line", "ip", "content"}
                  /\ e.line = line_number'[i]
                  /\ (e.ip = None) = ~HasAddress(line'[i])
                  /\ e.ip # None => IsFirstAddress(line'[i], e.ip)
                  /\ Trimmed(line'[i], e.content)]_vars

\* a line ending in the SQL comment marker, without address, and a line with
\* leading whitespace and an address
C15_Witness ==
    /\ List(1, "sql_injection") =
          <<[line |-> 1, ip |-> None, content |-> <<"admin' OR 1=1", " ", "--">>],
            [line |-> 2, ip |-> "10.0.0.5",
             content |-> <<"10.0.0.5", " ", "drop", " ", "table", " ", "authentication failure">>]>>
    /\ List(1, "brute_force") = <<List(1, "sql_injection")[2]>>
    /\ line[1] = LineSqlBf

\* the addresses of the events of self.attacks['ddos'] of instance i
DdosIps(i) == {List(i, "ddos")[k].ip : k \in DOMAIN List(i, "ddos")}

\* C16: run beside the analyzer over the same lines, the specification's rule
\* with its set of marked addresses keeps that set equal to the set of
\* addresses in the analyzer's DDoS list, and builds the same DDoS list,
\* after every step.
C16_LatchIsTriggeredSet ==
    \A i \in Constructed :
        /\ DdosIps(i) = triggered[i]
        /\ List(i, "ddos") = spec_ddos[i]

\* an address is marked and has been seen again since
C16_Witness ==
    \E a \in Addresses :
        /\ triggered[1] = {a}
        /\ Freq(ip_frequency[1], a) = DDOS_THRESHOLD + 2
        /\ Len(List(1, "ddos")) = 1
        /\ spec_ddos[1] = <<[line |-> DDOS_THRESHOLD + 1, ip |-> a, count |-> DDOS_THRESHOLD + 1]>>
\* the addresses whose frequency of instance i exceeds the threshold
OverThreshold(i) == {a \in DOMAIN ip_frequency[i] : ip_frequency[i][a] > DDOS_THRESHOLD}

\* C17: in every reachable state the addresses of the DDoS list are exactly
\* the addresses whose frequency exceeds 100, ddos_count is their number, and
\* every DDoS event has an address and the count 101.
C17_DdosIsOverThreshold ==
    \A i \in Constructed :
        /\ DdosIps(i) = OverThreshold(i)
        /\ stats[i].ddos_count = Cardinality(OverThreshold(i))
        /\ \A k \in DOMAIN List(i, "ddos") :
              /\ List(i, "ddos")[k].ip # None
              /\ List(i, "ddos")[k].count = DDOS_THRESHOLD + 1

C17_Witness ==
    /\ OverThreshold(1) = Addresses
    /\ stats[1].ddos_count = 2
    /\ List(1, "ddos")[1].line = 2 * DDOS_THRESHOLD + 1
    /\ List(1, "ddos")[2].line = 2 * DDOS_THRESHOLD + 2
    /\ ip_frequency[1]["203.0.113.9"] = DDOS_THRESHOLD + 1

C18_NoAddressKeepsAddressState ==
    \A i \in Instances :
        (Analyzed(i) /\ ~HasAddress(line'[i])) =>
            /\ ip_frequency'[i] = ip_frequency[i]
            /\ stats'[i].unique_ips = stats[i].unique_ips
            /\ stats'[i].ddos_count = stats[i].ddos_count
            /\ List(i, "ddos")' = List(i, "ddos")

C18_NoMatchKeepsState ==
    \A i \in Instances :
        (Analyzed(i) /\ ~HasAddress(line'[i])
           /\ \A c \in {"sql_injection", "xss", "brute_force"} : ~Expected(c, line'[i])) =>
            /\ stats'[i] = stats[i]
            /\ ip_frequency'[i] = ip_frequency[i]
            /\ \A c \in Categories : List(i, c)' = List(i, c)
            /\ heap' = heap

\* C18: an analyze_line call on a line without address that matches none of
\* the SQL injection, XSS and brute force patterns changes nothing of the
\* analyzer; a call on a line without address, whatever it matches, changes
\* neither ip_frequency nor the unique set nor ddos_count nor the DDoS list.
C18_Frame ==
    /\ [][C18_NoMatchKeepsState]_vars
    /\ [][C18_NoAddressKeepsAddressState]_vars

\* a plain line was analyzed after a line with an address and two matches
C18_Witness ==
    /\ line[1] = LinePlain
    /\ line_number[1] = 2
    /\ Freq(ip_frequency[1], "10.0.0.5") = 1
    /\ stats[1].sql_injection_count = 1
    /\ stats[1].brute_force_count = 1
    /\ stats[1].unique_ips = {"10.0.0.5"}

IsPrefix(p, q) == Len(p) <= Len(q) /\ SubSeq(q, 1, Len(p)) = p

C19_Grows ==
    \A i \in Instances :
        Analyzed(i) =>
            /\ \A c \in Categories :
                  /\ Counter(i, c)' >= Counter(i, c)
                  /\ IsPrefix(List(i, c), List(i, c)')
            /\ stats'[i].total_attacks >= stats[i].total_attacks
            /\ stats[i].unique_ips \subseteq stats'[i].unique_ips
            /\ DOMAIN ip_frequency[i] \subseteq DOMAIN ip_frequency'[i]
            /\ \A a \in DOMAIN ip_frequency[i] : ip_frequency'[i][a] >= ip_frequency[i][a]

\* C19: across every analyze_line call each counter and each ip_frequency
\* entry does not decrease, no key of ip_frequency is removed, and each of
\* the four lists before the call is a prefix of the list after it.
C19_Monotonic == [][C19_Grows]_vars

\* two calls have each grown a list, a counter and a frequency
C19_Witness ==
    /\ line_number[1] = 2
    /\ Len(List(1, "sql_injection")) = 2
    /\ List(1, "sql_injection")[1].line = 1
    /\ List(1, "sql_injection")[2].line = 2
    /\ Freq(ip_frequency[1], "10.0.0.5") = 2
    /\ stats[1].sql_injection_count = 2

RECURSIVE SumOver(_, _)
SumOver(d, keys) ==
    IF keys = {} THEN 0
    ELSE LET a == CHOOSE a \in keys : TRUE IN d[a] + SumOver(d, keys \ {a})

\* C20: in every reachable state every address carried by an event of any of
\* the four lists is a key of ip_frequency with a count of at least 1, and
\* the sum of all counts of ip_frequency is at most the number of
\* analyze_line calls made.
C20_EventAddressesCounted ==
    \A i \in Constructed :
        /\ \A c \in Categories : \A k \in DOMAIN List(i, c) :
              List(i, c)[k].ip # None =>
                  /\ List(i, c)[k].ip \in DOMAIN ip_frequency[i]
                  /\ ip_frequency[i][List(i, c)[k].ip] >= 1
        /\ SumOver(ip_frequency[i], DOMAIN ip_frequency[i]) <= Fed(i)

\* a line without address and a line with one have both left an event
C20_Witness ==
    /\ Fed(1) = 2
    /\ Len(List(1, "sql_injection")) = 2
    /\ List(1, "sql_injection")[1].ip = None
    /\ List(1, "sql_injection")[2].ip = "10.0.0.5"
    /\ SumOver(ip_frequency[1], DOMAIN ip_frequency[1]) = 1


====
